---- MODULE Spec2Model ----
(***************************************************************************)
(* Model of the DoodleVideo frame pipeline: the two coordinators           *)
(* (app.py process_video, main.py main), the extractor and the assembler   *)
(* (video_processor.py), the resampler (app.py subsample_frames) and the    *)
(* transform dispatcher (app.py worker pool, scribble_generator.py          *)
(* process_frames).                                                         *)
(*                                                                         *)
(* The two workspaces temp/original and temp/scribbled are functions from  *)
(* a frame index i (standing for the file frame_<i:05d>.jpg) to the file's  *)
(* content.  Directory listings are sorted by the formatted file name, as  *)
(* sorted(dir.glob("frame_*.jpg")) does.                                    *)
(*                                                                         *)
(* External capabilities follow their interface: the AI call may succeed,  *)
(* return no image or raise; the procedural renderer always succeeds;      *)
(* time.sleep(delay) raises ValueError for a negative delay; the decoder   *)
(* may reach end of stream before the reported frame count and may report  *)
(* a frame rate of zero; cv2.VideoWriter returns a writer that is not       *)
(* opened, and drops the frames written to it, when it cannot open its     *)
(* output file.                                                            *)
(*                                                                         *)
(* Spec is the whole program, run after run.  PoolSpec is the web          *)
(* coordinator's worker pool alone, on frame sets large enough for the      *)
(* pool's ceilings to bind.                                                *)
(***************************************************************************)
EXTENDS Integers, Sequences, FiniteSets, TLC

\* ------------------------------------------------------------------ bounds
MaxFrames == 4      \* largest frame count a source video reports
MaxFps == 3         \* largest native frame rate (frames per second)
MaxDuration == 4    \* largest duration cutoff, in half seconds
MaxAiFrames == 6    \* most retained frames handed to an AI-mode pool
MaxLocalFrames == 11 \* most retained frames handed to a local-mode pool

\* ------------------------------------------------------- program constants
MAX_DURATION_SECONDS == -1   \* config.MAX_DURATION_SECONDS = None (no cutoff)
PadWidth == 5                \* f"frame_{frame_count:05d}.jpg"
AiWorkers == 5               \* max_workers = 5 if mode == "ai"
LocalWorkers == 10           \* ... else 10

None == MAX_DURATION_SECONDS

\* ------------------------------------------------------------------ helpers
Min(a, b) == IF a <= b THEN a ELSE b

Range(s) == {s[k] : k \in 1..Len(s)}

Restrict(f, S) == [x \in S |-> f[x]]

EmptyDir == [x \in {} |-> 0]

\* int(duration * fps) for a duration given in half seconds (duration >= 0).
IntDurationTimesFps(halves, fps) == (halves * fps) \div 2

\* bool(x) of a float: 0.0 is falsy.
Truthy(x) == x /= None /\ x /= 0

\* ------------------------------------------------------- frame file names
\* The decimal digits of n, most significant first, as character codes.
RECURSIVE Digits(_)
Digits(n) == IF n < 10 THEN <<48 + n>> ELSE Append(Digits(n \div 10), 48 + (n % 10))

RECURSIVE ZeroPad(_, _)
ZeroPad(s, w) == IF Len(s) >= w THEN s ELSE ZeroPad(<<48>> \o s, w)

\* f"frame_{i:05d}.jpg" without the constant prefix "frame_" and the
\* constant suffix "jpg": the padded digits followed by the '.' (code 46).
FrameName(i) == Append(ZeroPad(Digits(i), PadWidth), 46)

\* Python's ordering of two strings: the first differing character decides,
\* a proper prefix sorts first.
RECURSIVE LexLess(_, _)
LexLess(a, b) ==
    IF b = <<>> THEN FALSE
    ELSE IF a = <<>> THEN TRUE
    ELSE IF Head(a) /= Head(b) THEN Head(a) < Head(b)
    ELSE LexLess(Tail(a), Tail(b))

\* sorted(directory.glob("frame_*.jpg")) for the files with indices S.
RECURSIVE Sorted(_)
Sorted(S) ==
    IF S = {} THEN <<>>
    ELSE LET first == CHOOSE x \in S :
                         \A y \in S \ {x} : LexLess(FrameName(x), FrameName(y))
         IN <<first>> \o Sorted(S \ {first})

\* Reverse of a list.
RECURSIVE Reverse(_)
Reverse(l) == IF l = <<>> THEN <<>> ELSE Append(Reverse(Tail(l)), Head(l))

\* frames[::skip] of a list.
RECURSIVE EveryNth(_, _)
EveryNth(frames, skip) ==
    IF frames = <<>> THEN <<>>
    ELSE <<Head(frames)>> \o
         EveryNth(SubSeq(frames, 1 + skip, Len(frames)), skip)

\* ------------------------------------------------------ clearing a folder
\* Mutant of ClearFolder: the loop stops after the first file it unlinks.
ClearFolderFirstFileOnly(dir) ==
    IF DOMAIN dir = {} THEN dir
    ELSE Restrict(dir, DOMAIN dir \ {Sorted(DOMAIN dir)[1]})

\* clear_temp_folders and VideoProcessor._clear_directory on one folder:
\* for file in folder.glob("*"): if file.is_file(): file.unlink().  Every
\* entry of a workspace is a frame file.
ClearFolder(dir) == Restrict(dir, DOMAIN dir \ {file \in DOMAIN dir : TRUE})

\* clear_temp_folders: for folder in [TEMP_ORIGINAL_DIR, TEMP_SCRIBBLED_DIR].
ClearedFolders(folders) == [k \in DOMAIN folders |-> ClearFolder(folders[k])]

\* ------------------------------------------------------------------- state
VARIABLES
    pc,                \* position of the coordinator
    coord,             \* "web" (app.py process_video) or "cli" (main.py main)
    mode,              \* "ai" or "experimental"
    apiKey,            \* config.GOOGLE_API_KEY is set
    delayNegative,     \* the delay argument is below zero
    opened,            \* cap.isOpened() of the source
    nativeFps,         \* CAP_PROP_FPS
    nativeTotal,       \* CAP_PROP_FRAME_COUNT
    streamLen,         \* frames cap.read() delivers before end of stream
    duration,          \* the user's duration cutoff in half seconds, or None
    targetFps,         \* target_fps (web only)
    max_duration,      \* what the coordinator passes to extract_frames
    frames_to_extract, \* extract_frames' frame limit
    frame_count,       \* extract_frames' loop counter and return value
    cleared,           \* extract_frames has cleared temp/original in this run
    frame_skip,        \* process_video's frame_skip
    renameList,        \* subsample_frames: the listing its rename loop walks
    renameIdx,         \* subsample_frames: idx of the rename loop
    original,          \* temp/original: frame index -> content
    scribbled,         \* temp/scribbled: frame index -> content
    frame_files,       \* the dispatcher's sorted input listing
    tasks,             \* web pool: frame index -> task state
    outOfOrder,        \* web pool: a task has ended before one submitted earlier
    collected,         \* web pool: futures as_completed has yielded
    completed,         \* web: the progress counter
    reports,           \* web: the (completed, total) pairs shown so far
    position,          \* cli: next element of frame_files to process
    stitchList,        \* the assembler's sorted listing
    writerOpen,        \* the cv2.VideoWriter has been created, not released
    sinkOpened,        \* out.isOpened(): the writer could open its output file
    video,             \* frames passed to out.write, in order
    failure            \* the error that ended the run, or "none"

vars == <<pc, coord, mode, apiKey, delayNegative, opened, nativeFps, nativeTotal,
          streamLen, duration, targetFps, max_duration, frames_to_extract,
          frame_count, cleared, frame_skip, renameList, renameIdx, original,
          scribbled, frame_files, tasks, outOfOrder, collected, completed,
          reports, position, stitchList, writerOpen, sinkOpened, video,
          failure>>

inputVars == <<coord, mode, apiKey, delayNegative, opened, nativeFps,
               nativeTotal, streamLen, duration, targetFps>>
extractVars == <<max_duration, frames_to_extract, frame_count, cleared>>
resampleVars == <<frame_skip, renameList, renameIdx>>
dispatchVars == <<frame_files, tasks, outOfOrder, collected, completed,
                  reports, position>>
stitchVars == <<stitchList, writerOpen, sinkOpened, video>>

\* Content of a file left behind by an earlier run.
StaleFrame == [run |-> "earlier", src |-> 0, by |-> "none"]

\* Content of an extracted frame: the source frame it was decoded from.
Decoded(src) == [run |-> "current", src |-> src, by |-> "decoder"]

\* Content of a transformed frame: the input it was made from and the
\* capability that drew it ("ai", "fallback" or "experimental").
Transformed(input, by) == [run |-> input.run, src |-> input.src, by |-> by]

Stage ==
    CASE pc = "Idle" -> "Idle"
      [] pc \in {"extract_clear", "extract_open", "extract_loop"} -> "Extracting"
      [] pc \in {"resample", "subsample_remove", "subsample_rename"} -> "Resampling"
      [] pc \in {"setup", "submit", "dispatch", "process_frames", "process_loop"}
            -> "Transforming"
      [] pc \in {"stitch_open", "stitch_write", "stitch_release"} -> "Assembling"
      [] pc = "cleanup" -> "CleaningUp"
      [] pc = "Done" -> "Done"
      [] pc = "Failed" -> "Failed"

Init ==
    /\ pc = "Idle"
    /\ coord = "web" /\ mode = "experimental" /\ apiKey = TRUE
    /\ delayNegative = FALSE /\ opened = TRUE
    /\ nativeFps = 1 /\ nativeTotal = 0 /\ streamLen = 0
    /\ duration = None /\ targetFps = 1
    /\ max_duration = None /\ frames_to_extract = 0 /\ frame_count = 0
    /\ cleared = FALSE
    /\ frame_skip = 1 /\ renameList = <<>> /\ renameIdx = 0
    /\ original = EmptyDir /\ scribbled = EmptyDir
    /\ frame_files = <<>> /\ tasks = EmptyDir /\ outOfOrder = FALSE
    /\ collected = {} /\ completed = 0 /\ reports = <<>>
    /\ position = 0
    /\ stitchList = <<>> /\ writerOpen = FALSE /\ sinkOpened = FALSE
    /\ video = <<>>
    /\ failure = "none"

\* A run ends in the coordinator's except clause.
Fail(error) ==
    /\ pc' = "Failed"
    /\ failure' = error

\* ------------------------------------------------------------- coordinator
\* The values every run starts from.
RunLocalsReset ==
    /\ frames_to_extract' = 0 /\ frame_count' = 0 /\ cleared' = FALSE
    /\ frame_skip' = 1 /\ renameList' = <<>> /\ renameIdx' = 0
    /\ frame_files' = <<>> /\ tasks' = EmptyDir /\ outOfOrder' = FALSE
    /\ collected' = {}
    /\ completed' = 0 /\ reports' = <<>> /\ position' = 0
    /\ stitchList' = <<>> /\ writerOpen' = FALSE /\ sinkOpened' = FALSE
    /\ video' = <<>>
    /\ failure' = "none"

\* A new invocation of main.py main or app.py process_video on a source
\* video, with the files earlier runs left in the workspaces.  A source that
\* cannot be opened reports no frames.  A source may report a frame rate of
\* zero; the page divides by the rate (app.py:259) before it offers the run,
\* so only main.py starts a run on such a source.
StartRun ==
    /\ pc = "Idle"
    /\ \E c \in {"web", "cli"}, m \in {"ai", "experimental"}, key \in BOOLEAN,
          neg \in BOOLEAN, op \in BOOLEAN, fps \in 0..MaxFps,
          total \in 0..MaxFrames, d \in {None} \cup 0..MaxDuration :
         \E len \in 0..total, t \in 0..fps :
            /\ c = "web" => (d /= None /\ fps >= 1 /\ t >= 1)
            /\ c = "cli" => t = fps
            /\ ~op => total = 0
            /\ coord' = c /\ mode' = m /\ apiKey' = key /\ delayNegative' = neg
            /\ opened' = op /\ nativeFps' = fps /\ nativeTotal' = total
            /\ streamLen' = len /\ duration' = d /\ targetFps' = t
            \* main.py:115 args.duration if args.duration else MAX_DURATION_SECONDS
            \* app.py:77   max_duration=duration
            /\ max_duration' = IF c = "cli"
                                 THEN (IF Truthy(d) THEN d ELSE MAX_DURATION_SECONDS)
                                 ELSE d
    /\ RunLocalsReset
    /\ pc' = "extract_clear"
    /\ UNCHANGED <<original, scribbled>>

\* Mutant of Return: the coordinator clears both workspaces on its way out,
\* as a clear_temp_folders() in a finally clause would.
ReturnWithCleanup ==
    /\ pc \in {"Done", "Failed"}
    /\ pc' = "Idle"
    /\ coord' = "web" /\ mode' = "experimental" /\ apiKey' = TRUE
    /\ delayNegative' = FALSE /\ opened' = TRUE
    /\ nativeFps' = 1 /\ nativeTotal' = 0 /\ streamLen' = 0
    /\ duration' = None /\ targetFps' = 1 /\ max_duration' = None
    /\ RunLocalsReset
    /\ original' = EmptyDir
    /\ scribbled' = EmptyDir

\* The run is over: process_video has returned or main.py has exited.  What
\* it leaves to later runs is the files in the two workspaces.
Return ==
    /\ pc \in {"Done", "Failed"}
    /\ pc' = "Idle"
    /\ coord' = "web" /\ mode' = "experimental" /\ apiKey' = TRUE
    /\ delayNegative' = FALSE /\ opened' = TRUE
    /\ nativeFps' = 1 /\ nativeTotal' = 0 /\ streamLen' = 0
    /\ duration' = None /\ targetFps' = 1 /\ max_duration' = None
    /\ RunLocalsReset
    /\ original' = [i \in DOMAIN original |-> StaleFrame]
    /\ scribbled' = [i \in DOMAIN scribbled |-> StaleFrame]

\* --------------------------------------------------------------- extractor
\* extract_frames: self._clear_directory(output_dir)
extract_clear ==
    /\ pc = "extract_clear"
    /\ original' = ClearFolder(original)
    /\ cleared' = TRUE
    /\ pc' = "extract_open"
    /\ UNCHANGED <<inputVars, max_duration, frames_to_extract, frame_count,
                   resampleVars, scribbled, dispatchVars, stitchVars, failure>>

\* extract_frames: open the source, read its properties, compute the limit.
\* Without a cutoff it prints total_frames / fps, which raises
\* ZeroDivisionError for a frame rate of zero.
extract_open ==
    /\ pc = "extract_open"
    /\ IF ~opened
         THEN /\ Fail("SourceUnreadable")
              /\ UNCHANGED frames_to_extract
         ELSE IF max_duration = None /\ nativeFps = 0
         THEN /\ Fail("ZeroDivisionError")
              /\ UNCHANGED frames_to_extract
         ELSE /\ frames_to_extract' =
                    IF max_duration /= None
                      THEN Min(IntDurationTimesFps(max_duration, nativeFps), nativeTotal)
                      ELSE nativeTotal
              /\ pc' = "extract_loop"
              /\ UNCHANGED failure
    /\ UNCHANGED <<inputVars, max_duration, frame_count, cleared, resampleVars,
                   original, scribbled, dispatchVars, stitchVars>>

\* extract_frames: one turn of the while loop, or its end and the return.
extract_loop ==
    /\ pc = "extract_loop"
    /\ IF frame_count < frames_to_extract /\ frame_count < streamLen
         THEN /\ original' = [i \in DOMAIN original \cup {frame_count} |->
                                IF i = frame_count THEN Decoded(frame_count)
                                                   ELSE original[i]]
              /\ frame_count' = frame_count + 1
              /\ UNCHANGED pc
         ELSE /\ pc' = IF coord = "web" THEN "resample" ELSE "setup"
              /\ UNCHANGED <<original, frame_count>>
    /\ UNCHANGED <<inputVars, max_duration, frames_to_extract, cleared,
                   resampleVars, scribbled, dispatchVars, stitchVars, failure>>

\* --------------------------------------------------------------- resampler
\* Mutant of frames_to_keep: the slice starts at the second frame, frames[1::skip].
frames_to_keep_from_second(frames, skip) ==
    EveryNth(SubSeq(frames, 2, Len(frames)), skip)

\* subsample_frames: frames_to_keep = frames[::skip]
frames_to_keep(frames, skip) == EveryNth(frames, skip)

\* subsample_frames: the directory after the frames not kept are unlinked.
RemoveFrames(dir, skip) ==
    Restrict(dir, Range(frames_to_keep(Sorted(DOMAIN dir), skip)))

\* frame.rename(new_name): the file moves; an existing target is replaced.
Rename(dir, frame, new_name) ==
    [i \in (DOMAIN dir \ {frame}) \cup {new_name} |->
        IF i = new_name THEN dir[frame] ELSE dir[i]]

\* process_video: frame_skip, and the choice to subsample.
resample ==
    /\ pc = "resample"
    /\ frame_skip' = IF targetFps < nativeFps THEN nativeFps \div targetFps ELSE 1
    /\ pc' = IF frame_skip' > 1 THEN "subsample_remove" ELSE "setup"
    /\ UNCHANGED <<inputVars, extractVars, renameList, renameIdx, original,
                   scribbled, dispatchVars, stitchVars, failure>>

\* Mutant of subsample_remove: the second listing is not sorted by name (it
\* comes in descending order).
subsample_remove_unsorted ==
    /\ pc = "subsample_remove"
    /\ original' = RemoveFrames(original, frame_skip)
    /\ renameList' = Reverse(Sorted(DOMAIN original'))
    /\ renameIdx' = 0
    /\ pc' = "subsample_rename"
    /\ UNCHANGED <<inputVars, extractVars, frame_skip, scribbled, dispatchVars,
                   stitchVars, failure>>

\* subsample_frames: list, select, unlink; then list again for the renaming.
subsample_remove ==
    /\ pc = "subsample_remove"
    /\ original' = RemoveFrames(original, frame_skip)
    /\ renameList' = Sorted(DOMAIN original')
    /\ renameIdx' = 0
    /\ pc' = "subsample_rename"
    /\ UNCHANGED <<inputVars, extractVars, frame_skip, scribbled, dispatchVars,
                   stitchVars, failure>>

\* subsample_frames: one turn of the rename loop, or its end.
subsample_rename ==
    /\ pc = "subsample_rename"
    /\ IF renameIdx < Len(renameList)
         THEN LET frame == renameList[renameIdx + 1]
                  new_name == renameIdx
              IN /\ original' = IF frame /= new_name
                                  THEN Rename(original, frame, new_name)
                                  ELSE original
                 /\ renameIdx' = renameIdx + 1
                 /\ UNCHANGED pc
         ELSE /\ pc' = "setup"
              /\ UNCHANGED <<original, renameIdx>>
    /\ UNCHANGED <<inputVars, extractVars, frame_skip, renameList, scribbled,
                   dispatchVars, stitchVars, failure>>

\* -------------------------------------------------------------- transforms
\* ScribbleGenerator.__init__ and _setup_ai.
setup ==
    /\ pc = "setup"
    /\ IF mode = "ai" /\ ~apiKey
         THEN Fail("ConfigurationError")
         ELSE /\ pc' = IF coord = "web" THEN "submit" ELSE "process_frames"
              /\ UNCHANGED failure
    /\ UNCHANGED <<inputVars, extractVars, resampleVars, original, scribbled,
                   dispatchVars, stitchVars>>

\* Mutant of output_file: one output path for every frame.
output_file_shared(frame_file) == 0

\* output_file = config.TEMP_SCRIBBLED_DIR / frame_file.name
output_file(frame_file) == frame_file

\* img.save(path): the file is created or replaced.
Save(dir, path, content) ==
    [i \in DOMAIN dir \cup {path} |-> IF i = path THEN content ELSE dir[i]]

\* _process_frame_experimental: draw on the input image, save at the output.
process_frame_experimental(dir, input, output, by) ==
    Save(dir, output, Transformed(original[input], by))

\* Mutant of process_frame_ai: a failed call writes nothing (no fallback).
process_frame_ai_without_fallback(dir, input, output, response) ==
    IF response = "image"
      THEN Save(dir, output, Transformed(original[input], "ai"))
      ELSE dir

\* _process_frame_ai: save the generated image, or fall back when the call
\* raises or the response holds no image.
process_frame_ai(dir, input, output, response) ==
    IF response = "image"
      THEN Save(dir, output, Transformed(original[input], "ai"))
      ELSE process_frame_experimental(dir, input, output, "fallback")

AiResponses == {"image", "no_image", "error"}

\* The transformed workspace after one frame's transformation in the mode.
TransformFrame(dir, frame, response) ==
    IF mode = "ai"
      THEN process_frame_ai(dir, frame, output_file(frame), response)
      ELSE process_frame_experimental(dir, frame, output_file(frame), "experimental")

\* ------------------------------------------------------- dispatcher (web)
\* Mutant of max_workers: the two ceilings are swapped.
max_workers_swapped == IF mode = "ai" THEN LocalWorkers ELSE AiWorkers

\* max_workers = 5 if mode == "ai" else 10
max_workers == IF mode = "ai" THEN AiWorkers ELSE LocalWorkers

Executing == {i \in DOMAIN tasks : tasks[i] \in {"running", "sleeping"}}

\* The queued task that was submitted first (the pool's queue is FIFO).
NextQueued ==
    LET queued == {k \in 1..Len(frame_files) : tasks[frame_files[k]] = "queued"}
    IN frame_files[CHOOSE k \in queued : \A j \in queued : k <= j]

\* Task i ends while a task submitted before it has not ended.
EndsEarly(i) ==
    \E k, l \in 1..Len(frame_files) :
        /\ k < l
        /\ frame_files[l] = i
        /\ tasks[frame_files[k]] \notin {"finished", "raised"}

\* process_video: list the retained frames and submit one task for each.
submit ==
    /\ pc = "submit"
    /\ frame_files' = Sorted(DOMAIN original)
    /\ tasks' = [i \in DOMAIN original |-> "queued"]
    /\ outOfOrder' = FALSE
    /\ collected' = {}
    /\ completed' = 0
    /\ reports' = <<>>
    /\ pc' = "dispatch"
    /\ UNCHANGED <<inputVars, extractVars, resampleVars, original, scribbled,
                   position, stitchVars, failure>>

\* A free worker takes the next task from the queue.
TaskStart ==
    /\ pc = "dispatch"
    /\ \E i \in DOMAIN tasks : tasks[i] = "queued"
    /\ Cardinality(Executing) < max_workers
    /\ tasks' = [tasks EXCEPT ![NextQueued] = "running"]
    /\ UNCHANGED <<pc, inputVars, extractVars, resampleVars, original, scribbled,
                   frame_files, outOfOrder, collected, completed, reports,
                   position, stitchVars, failure>>

\* process_single_frame: the transformation of the task's frame.
TaskTransform(i) ==
    /\ pc = "dispatch"
    /\ tasks[i] = "running"
    /\ \E response \in (IF mode = "ai" THEN AiResponses ELSE {"none"}) :
          scribbled' = TransformFrame(scribbled, i, response)
    /\ tasks' = [tasks EXCEPT ![i] = IF mode = "ai" THEN "sleeping" ELSE "finished"]
    /\ outOfOrder' = IF mode = "ai" THEN outOfOrder ELSE (outOfOrder \/ EndsEarly(i))
    /\ UNCHANGED <<pc, inputVars, extractVars, resampleVars, original,
                   frame_files, collected, completed, reports, position,
                   stitchVars, failure>>

\* process_single_frame: time.sleep(delay), which raises for a negative delay.
TaskSleep(i) ==
    /\ pc = "dispatch"
    /\ tasks[i] = "sleeping"
    /\ tasks' = [tasks EXCEPT ![i] = IF delayNegative THEN "raised" ELSE "finished"]
    /\ outOfOrder' = (outOfOrder \/ EndsEarly(i))
    /\ UNCHANGED <<pc, inputVars, extractVars, resampleVars, original, scribbled,
                   frame_files, collected, completed, reports, position,
                   stitchVars, failure>>

\* Mutant of Collect: the counter's increment can be lost, as an unsynchronised
\* read-modify-write by two workers would lose it.
CollectWithLostUpdate(i) ==
    /\ pc = "dispatch"
    /\ tasks[i] \in {"finished", "raised"}
    /\ i \notin collected
    /\ collected' = collected \cup {i}
    /\ \E n \in {completed, completed + 1} :
          /\ completed' = n
          /\ reports' = Append(reports, <<n, Len(frame_files)>>)
    /\ UNCHANGED <<pc, inputVars, extractVars, resampleVars, original, scribbled,
                   frame_files, tasks, outOfOrder, position, stitchVars,
                   failure>>

\* process_video: one turn of the as_completed loop; a task's exception is
\* printed and dropped.
Collect(i) ==
    /\ pc = "dispatch"
    /\ tasks[i] \in {"finished", "raised"}
    /\ i \notin collected
    /\ collected' = collected \cup {i}
    /\ completed' = completed + 1
    /\ reports' = Append(reports, <<completed', Len(frame_files)>>)
    /\ UNCHANGED <<pc, inputVars, extractVars, resampleVars, original, scribbled,
                   frame_files, tasks, outOfOrder, position, stitchVars,
                   failure>>

\* Mutant of DispatchEnd: the coordinator goes on without waiting for the pool.
DispatchEndWithoutWaiting ==
    /\ pc = "dispatch"
    /\ pc' = "stitch_open"
    /\ UNCHANGED <<inputVars, extractVars, resampleVars, original, scribbled,
                   dispatchVars, stitchVars, failure>>

\* process_video: as_completed is exhausted and the executor's with block ends.
DispatchEnd ==
    /\ pc = "dispatch"
    /\ collected = DOMAIN tasks
    /\ pc' = "stitch_open"
    /\ UNCHANGED <<inputVars, extractVars, resampleVars, original, scribbled,
                   dispatchVars, stitchVars, failure>>

\* ------------------------------------------------------- dispatcher (cli)
\* ScribbleGenerator.process_frames: list the frames; none is an error.
process_frames ==
    /\ pc = "process_frames"
    /\ frame_files' = Sorted(DOMAIN original)
    /\ IF frame_files' = <<>>
         THEN /\ Fail("EmptyFrameSet")
              /\ UNCHANGED position
         ELSE /\ pc' = "process_loop"
              /\ position' = 1
              /\ UNCHANGED failure
    /\ UNCHANGED <<inputVars, extractVars, resampleVars, original, scribbled,
                   tasks, outOfOrder, collected, completed, reports,
                   stitchVars>>

\* ScribbleGenerator.process_frames: one turn of the loop over the frames
\* (transformation, then the delay in AI mode), or the loop's end.
process_loop ==
    /\ pc = "process_loop"
    /\ IF position <= Len(frame_files)
         THEN /\ \E response \in (IF mode = "ai" THEN AiResponses ELSE {"none"}) :
                    scribbled' = TransformFrame(scribbled, frame_files[position], response)
              /\ IF mode = "ai" /\ delayNegative
                   THEN /\ Fail("TaskException")
                        /\ UNCHANGED position
                   ELSE /\ position' = position + 1
                        /\ UNCHANGED <<pc, failure>>
         ELSE /\ pc' = "stitch_open"
              /\ UNCHANGED <<scribbled, position, failure>>
    /\ UNCHANGED <<inputVars, extractVars, resampleVars, original, frame_files,
                   tasks, outOfOrder, collected, completed, reports,
                   stitchVars>>

\* --------------------------------------------------------------- assembler
\* Mutant of StitchListing: the listing is not in ascending name order.
StitchListingDescending(dir) == Reverse(Sorted(DOMAIN dir))

\* The listing the assembler encodes: sorted(frames_dir.glob("frame_*.jpg")).
StitchListing(dir) == Sorted(DOMAIN dir)

\* stitch_frames (cli) and process_video's inline stitching (web): list the
\* transformed frames and create the writer.  Only stitch_frames checks for
\* an empty listing.  cv2.VideoWriter(...) returns a writer also when it
\* cannot open the output file; neither caller asks out.isOpened().
stitch_open ==
    /\ pc = "stitch_open"
    /\ stitchList' = StitchListing(scribbled)
    /\ IF coord = "cli" /\ stitchList' = <<>>
         THEN /\ Fail("EmptyFrameSet")
              /\ UNCHANGED <<writerOpen, sinkOpened>>
         ELSE /\ writerOpen' = TRUE
              /\ sinkOpened' \in BOOLEAN
              /\ pc' = "stitch_write"
              /\ UNCHANGED failure
    /\ UNCHANGED <<inputVars, extractVars, resampleVars, original, scribbled,
                   dispatchVars, video>>

\* One turn of the writing loop (imread, resize, out.write), or its end.
\* out.write on a writer that is not opened drops the frame and returns.
stitch_write ==
    /\ pc = "stitch_write"
    /\ IF Len(video) < Len(stitchList)
         THEN LET frame_file == stitchList[Len(video) + 1]
              IN /\ video' = Append(video, [file |-> frame_file,
                                             frame |-> scribbled[frame_file]])
                 /\ UNCHANGED pc
         ELSE /\ pc' = "stitch_release"
              /\ UNCHANGED video
    /\ UNCHANGED <<inputVars, extractVars, resampleVars, original, scribbled,
                   dispatchVars, stitchList, writerOpen, sinkOpened, failure>>

\* out.release(); the cli coordinator then reports success.
stitch_release ==
    /\ pc = "stitch_release"
    /\ writerOpen' = FALSE
    /\ pc' = IF coord = "web" THEN "cleanup" ELSE "Done"
    /\ UNCHANGED <<inputVars, extractVars, resampleVars, original, scribbled,
                   dispatchVars, stitchList, sinkOpened, video, failure>>

\* ----------------------------------------------------------------- cleanup
\* clear_temp_folders, called by process_video before it returns success.
clear_temp_folders ==
    /\ pc = "cleanup"
    /\ LET cleared_folders == ClearedFolders(<<original, scribbled>>)
       IN /\ original' = cleared_folders[1]
          /\ scribbled' = cleared_folders[2]
    /\ pc' = "Done"
    /\ UNCHANGED <<inputVars, extractVars, resampleVars, dispatchVars,
                   stitchVars, failure>>

\* The page's "Clear Temp Folders" button, between two runs.
ClearTempFoldersButton ==
    /\ pc = "Idle"
    /\ LET cleared_folders == ClearedFolders(<<original, scribbled>>)
       IN /\ original' = cleared_folders[1]
          /\ scribbled' = cleared_folders[2]
    /\ UNCHANGED <<pc, inputVars, extractVars, resampleVars, dispatchVars,
                   stitchVars, failure>>

\* ------------------------------------------------- the page's own arithmetic
\* main (page): frames_to_extract = int(duration * original_fps), shown
\* before the run; process_video computes the same value for its status line.
frames_to_extract_shown == IntDurationTimesFps(duration, nativeFps)

\* main (page): frames_after_skip = frames_to_extract //
\* int(original_fps / target_fps), reported as "Frames Processed".
frames_after_skip == frames_to_extract_shown \div (nativeFps \div targetFps)

\* ------------------------------------------------------------ specification
Next ==
    \/ StartRun
    \/ Return
    \/ extract_clear
    \/ extract_open
    \/ extract_loop
    \/ resample
    \/ subsample_remove
    \/ subsample_rename
    \/ setup
    \/ submit
    \/ TaskStart
    \/ \E i \in DOMAIN tasks : TaskTransform(i)
    \/ \E i \in DOMAIN tasks : TaskSleep(i)
    \/ \E i \in DOMAIN tasks : Collect(i)
    \/ DispatchEnd
    \/ process_frames
    \/ process_loop
    \/ stitch_open
    \/ stitch_write
    \/ stitch_release
    \/ clear_temp_folders
    \/ ClearTempFoldersButton

Spec == Init /\ [][Next]_vars

\* ------------------------------------------------- the worker pool by itself
\* process_video just before it builds the pool: a web run of a source of one
\* frame per second has extracted n frames, kept them all (target rate =
\* native rate) and built the generator; the transformed workspace is empty.
\* The delay is the page's (a slider from 0.5 to 3.0 seconds).
PoolInit ==
    /\ pc = "submit" /\ coord = "web" /\ apiKey = TRUE /\ opened = TRUE
    /\ mode \in {"ai", "experimental"}
    /\ delayNegative = FALSE
    /\ nativeFps = 1 /\ targetFps = 1
    /\ nativeTotal \in 0..(IF mode = "ai" THEN MaxAiFrames ELSE MaxLocalFrames)
    /\ streamLen = nativeTotal
    /\ duration = 2 * nativeTotal /\ max_duration = duration
    /\ frames_to_extract = nativeTotal /\ frame_count = nativeTotal
    /\ cleared = TRUE
    /\ frame_skip = 1 /\ renameList = <<>> /\ renameIdx = 0
    /\ original = [i \in 0..(nativeTotal - 1) |-> Decoded(i)]
    /\ scribbled = EmptyDir
    /\ frame_files = <<>> /\ tasks = EmptyDir /\ outOfOrder = FALSE
    /\ collected = {} /\ completed = 0 /\ reports = <<>>
    /\ position = 0
    /\ stitchList = <<>> /\ writerOpen = FALSE /\ sinkOpened = FALSE
    /\ video = <<>>
    /\ failure = "none"

\* The steps of process_video from the submission to the end of the with block.
PoolNext ==
    \/ submit
    \/ TaskStart
    \/ \E i \in DOMAIN tasks : TaskTransform(i)
    \/ \E i \in DOMAIN tasks : TaskSleep(i)
    \/ \E i \in DOMAIN tasks : Collect(i)
    \/ DispatchEnd

PoolSpec == PoolInit /\ [][PoolNext]_vars

\* ================================================================== claims
Ceil(n, d) == (n + d - 1) \div d

TransformedBy == {"ai", "fallback", "experimental"}

\* The dispatcher has returned and the assembler has not begun.
DispatchFinished == pc = "stitch_open"

\* Frame i of the transformed workspace is this run's transformation of
\* frame i of the extracted workspace.
IsOutputOf(i) ==
    /\ i \in DOMAIN scribbled
    /\ scribbled[i].run = "current"
    /\ scribbled[i].src = original[i].src
    /\ scribbled[i].by \in TransformedBy

\* C1: when the dispatcher finishes (web pool or cli loop, either mode),
\* every frame it was handed has its output under the same index in the
\* transformed workspace, made from that frame by this run, also when every
\* AI call failed.
C1_EveryInputHasItsOutput ==
    DispatchFinished =>
        /\ Range(frame_files) = DOMAIN original
        /\ \A i \in Range(frame_files) : IsOutputOf(i)

\* C1 witness: an AI-mode web dispatch of three or more frames has finished
\* and every output came from the fallback.
C1_Witness ==
    /\ DispatchFinished
    /\ coord = "web" /\ mode = "ai"
    /\ Len(frame_files) >= 3
    /\ \A i \in Range(frame_files) : IsOutputOf(i) /\ scribbled[i].by = "fallback"

\* C2 (as claimed): every frame written to a run's encoder was written by
\* that run's dispatcher, none was left in the workspace by an earlier run.
C2_NoStaleFrameEncoded ==
    \A k \in 1..Len(video) :
        /\ video[k].frame.run = "current"
        /\ video[k].file \in Range(frame_files)

\* C3 (as claimed): a run whose extractor yielded no frame never finishes an
\* output video and never reports success.
C3_EmptyFrameSetFails ==
    frame_count = 0 => pc \notin {"cleanup", "Done"}

\* C4 (as claimed): an exception raised by one frame's task never ends the
\* run, and never leaves a frame that the dispatcher was handed without an
\* output once the run has left the Transforming stage.
C4_TaskExceptionIsIsolated ==
    /\ failure /= "TaskException"
    /\ (Stage \in {"Assembling", "Failed"} /\ frame_files /= <<>>)
          => \A i \in Range(frame_files) : IsOutputOf(i)

\* C5 (as claimed): when the run fails for the missing API credential, the
\* extractor has neither cleared the workspace nor written a frame.
C5_ConfigurationErrorBeforeFrameWork ==
    (pc = "Failed" /\ failure = "ConfigurationError")
        => (~cleared /\ frame_count = 0)

\* The order of the stages.
StageRank(stage) ==
    CASE stage = "Idle" -> 0
      [] stage = "Extracting" -> 1
      [] stage = "Resampling" -> 2
      [] stage = "Transforming" -> 3
      [] stage = "Assembling" -> 4
      [] stage = "CleaningUp" -> 5
      [] stage = "Done" -> 6
      [] stage = "Failed" -> 7

\* One step of the coordinator between two stages: to the next stage
\* (main.py has no Resampling and no CleaningUp stage), to Failed from a
\* running stage, and from a terminal stage back to Idle.
StageStep(from, to, coordinator) ==
    \/ from \in {"Done", "Failed"} /\ to = "Idle"
    \/ from \notin {"Idle", "Done", "Failed"} /\ to = "Failed"
    \/ /\ coordinator = "web"
       /\ StageRank(to) = StageRank(from) + 1
       /\ to /= "Failed"
    \/ /\ coordinator = "cli"
       /\ <<from, to>> \in {<<"Idle", "Extracting">>, <<"Extracting", "Transforming">>,
                            <<"Transforming", "Assembling">>, <<"Assembling", "Done">>}

NoTaskPending ==
    /\ \A i \in DOMAIN tasks : tasks[i] \in {"finished", "raised"}
    /\ coord = "cli" => position > Len(frame_files)

FrameDeleted ==
    \/ \E i \in DOMAIN original : i \notin DOMAIN original'
    \/ \E i \in DOMAIN scribbled : i \notin DOMAIN scribbled'

\* C6: the stage changes only along Extracting, Resampling, Transforming,
\* Assembling, CleaningUp, Done (the cli run without Resampling and
\* CleaningUp) or to Failed; while the assembler runs no transformation task
\* is queued or running; and no step deletes a frame while the encoder is
\* open.
C6_StagesInOrderWithoutOverlap ==
    /\ [][Stage' /= Stage => StageStep(Stage, Stage', coord')]_vars
    /\ [](Stage \in {"Assembling", "CleaningUp", "Done"} => NoTaskPending)
    /\ [][FrameDeleted => ~writerOpen]_vars

\* C6 witness: a web run that subsampled and encoded two or more frames is
\* Done.
C6_Witness ==
    /\ pc = "Done" /\ coord = "web"
    /\ frame_skip > 1
    /\ Len(video) >= 2

\* C7 (as claimed): when a run is Done, neither workspace holds a frame file.
C7_DoneLeavesNoFrames ==
    pc = "Done" => (DOMAIN original = {} /\ DOMAIN scribbled = {})

\* extract_frames has returned to its coordinator.
ExtractReturned ==
    \/ coord = "web" /\ pc = "resample"
    \/ coord = "cli" /\ pc = "setup"

\* floor(cutoff * native_fps) for the user's cutoff in half seconds.
CutoffFrames == (duration * nativeFps) \div 2

\* C8 (as claimed), for sources that deliver every frame they report: when
\* extract_frames returns, it has written min(native_total_frames,
\* floor(cutoff * native_fps)) frames if the user gave a cutoff and
\* native_total_frames otherwise, under the indices 0 .. count-1.
C8_ExtractedCountMatchesCutoff ==
    (ExtractReturned /\ streamLen = nativeTotal)
        => /\ frame_count = IF duration /= None
                              THEN Min(nativeTotal, CutoffFrames)
                              ELSE nativeTotal
           /\ DOMAIN original = 0..(frame_count - 1)

\* The resampler has returned to process_video.
Resampled == pc = "setup" /\ coord = "web"

ProgressUpTo(n, total) == [k \in 1..n |-> <<k, total>>]

\* C11: whatever the order in which the pool's tasks end, the progress
\* reports are (1,total), (2,total), ... with one report per task collected,
\* and when the dispatcher has finished the last report is (total,total) for
\* total the number of submitted tasks, whether the tasks succeeded or raised.
C11_ProgressCountsEveryCompletion ==
    /\ pc = "dispatch" =>
          /\ completed = Cardinality(collected)
          /\ reports = ProgressUpTo(completed, Len(frame_files))
    /\ (DispatchFinished /\ coord = "web") =>
          /\ Len(frame_files) = Cardinality(DOMAIN tasks)
          /\ reports = ProgressUpTo(Cardinality(DOMAIN tasks), Len(frame_files))

\* C11 witness: three or more tasks ended out of submission order, each by
\* raising, and the dispatcher has finished with one report per task.
C11_Witness ==
    /\ DispatchFinished /\ coord = "web"
    /\ outOfOrder
    /\ Len(reports) >= 3
    /\ \A i \in DOMAIN tasks : tasks[i] = "raised"

\* C12: at every instant of the Transforming stage at most 5 tasks execute
\* (transforming or sleeping in their delay) in AI mode and at most 10 in
\* local mode, however many frames were retained.
C12_ConcurrencyCeiling ==
    Stage = "Transforming" =>
        Cardinality(Executing) <= (IF mode = "ai" THEN 5 ELSE 10)

\* C12 witness: an AI-mode pool runs at its ceiling, one of the five tasks
\* sleeping in its delay, while a sixth task waits in the queue.
C12_Witness ==
    /\ pc = "dispatch" /\ mode = "ai"
    /\ Cardinality(Executing) = 5
    /\ \E i \in DOMAIN tasks : tasks[i] = "sleeping"
    /\ \E i \in DOMAIN tasks : tasks[i] = "running"
    /\ \E i \in DOMAIN tasks : tasks[i] = "queued"

\* The local-mode pool runs at its ceiling of ten while an eleventh task waits.
LocalPoolAtCeiling ==
    /\ pc = "dispatch" /\ mode = "experimental"
    /\ Cardinality(Executing) = 10
    /\ \E i \in DOMAIN tasks : tasks[i] = "queued"

\* The output paths a step writes: files it creates or whose content it changes.
PathsWritten ==
    {p \in DOMAIN scribbled' : p \notin DOMAIN scribbled \/ scribbled'[p] /= scribbled[p]}

\* The step is task i's transformation of its frame.
TaskWrites(i) == tasks[i] = "running" /\ tasks'[i] /= "running"

\* C13: while the pool runs, the submitted tasks have pairwise distinct
\* output paths, one per frame file, and every write to the transformed
\* workspace (an AI image, a fallback drawing or a local drawing) is made by
\* exactly one task and goes to that task's own path.
C13_TasksWriteDistinctPaths ==
    /\ [](pc = "dispatch" =>
            /\ DOMAIN tasks = Range(frame_files)
            /\ \A k, l \in 1..Len(frame_files) :
                  k /= l => output_file(frame_files[k]) /= output_file(frame_files[l]))
    /\ [][pc = "dispatch" =>
            \A p \in PathsWritten :
                /\ \E i \in DOMAIN tasks : TaskWrites(i) /\ p = output_file(i)
                /\ Cardinality({i \in DOMAIN tasks : TaskWrites(i)}) = 1]_vars

\* C13 witness: three AI-mode tasks are in their delay at the same time, one
\* having saved the generated image and another the fallback drawing, each
\* under its own frame's name.
C13_Witness ==
    /\ pc = "dispatch" /\ mode = "ai"
    /\ \E i, j, k \in DOMAIN tasks :
          /\ i /= j /\ j /= k /\ i /= k
          /\ tasks[i] = "sleeping" /\ tasks[j] = "sleeping" /\ tasks[k] = "sleeping"
          /\ scribbled[output_file(i)].by = "ai"
          /\ scribbled[output_file(j)].by = "fallback"
          /\ scribbled[output_file(i)].src /= scribbled[output_file(j)].src

\* C14 (as claimed): a run whose encoder could not open its output file
\* never goes on to clean up or to report success with an output path.
C14_EncoderFailureAborts ==
    (Stage \in {"CleaningUp", "Done"}) => sinkOpened

\* C15 (as claimed): extract_frames never returns a frame count for a source
\* that could not be opened or that reports a frame rate of zero, whether or
\* not a cutoff was passed; such a run fails with SourceUnreadable.
C15_ZeroFrameRateIsUnreadable ==
    /\ ExtractReturned => (opened /\ nativeFps /= 0)
    /\ (pc = "Failed" /\ ~opened) => failure = "SourceUnreadable"

\* The cutoffs the page offers: at least one second, at most the video's
\* length.
CutoffOffered == duration >= 2 /\ CutoffFrames <= nativeTotal

\* C16 (as claimed), for sources that deliver every frame they report and
\* cutoffs the page offers: the frames_to_extract and frames_after_skip
\* values computed up front equal the number of frames the extractor wrote
\* and the number the resampler retained.
C16_UpFrontCountsMatchStages ==
    (Resampled /\ targetFps <= nativeFps /\ streamLen = nativeTotal /\ CutoffOffered)
        => /\ frames_to_extract_shown = frame_count
           /\ frames_after_skip = Cardinality(DOMAIN original)

\* C17: a run that has failed holds the error that ended it, and its next
\* step is the coordinator's return to its caller (process_video's
\* (None, False), main.py's exit code 1), which deletes no frame: both
\* workspaces hold the same files after it as at the failure.
C17_FailedRunKeepsItsFrames ==
    /\ [](pc = "Failed" => failure /= "none")
    /\ [][pc = "Failed" =>
            /\ pc' = "Idle"
            /\ DOMAIN original' = DOMAIN original
            /\ DOMAIN scribbled' = DOMAIN scribbled]_vars

\* C17 witness: a run has failed in the middle of its transformations with
\* extracted frames and transformed frames of its own in the workspaces.
C17_Witness ==
    /\ pc = "Failed" /\ failure = "TaskException"
    /\ Cardinality(DOMAIN original) >= 2
    /\ \E i \in DOMAIN scribbled : scribbled[i].run = "current"

\* C18: from every state of the two workspaces, clear_temp_folders leaves
\* both without a file, and clear_temp_folders run again on the result
\* leaves the same empty workspaces.
C18_CleanupIsIdempotent ==
    LET once == ClearedFolders(<<original, scribbled>>)
        twice == ClearedFolders(once)
    IN /\ \A k \in DOMAIN once : DOMAIN once[k] = {}
       /\ twice = once

\* C18 witness: between two runs both workspaces hold files, two or more in
\* one of them, so the first cleanup deletes files and the second finds none.
C18_Witness ==
    /\ pc = "Idle"
    /\ Cardinality(DOMAIN original) >= 2
    /\ DOMAIN scribbled /= {}
    /\ ClearedFolders(<<original, scribbled>>) /= <<original, scribbled>>

====
